---- MODULE Spec2Model ----
(***************************************************************************)
(* A model of src/odds.js: the upgrade aggregator computeEffectiveStats,   *)
(* the odds calculator calculateOdds and the form helper                   *)
(* calculateFromInputs.                                                    *)
(*                                                                         *)
(* JavaScript objects live in a heap (a sequence of records, an object's   *)
(* reference being its index), so that writing through an alias is         *)
(* visible.  Numbers in statistics records are integers; the quotients the *)
(* calculator forms are exact fractions kept in lowest terms (the model    *)
(* does not round as IEEE doubles do).                                     *)
(***************************************************************************)
EXTENDS Integers, Sequences, FiniteSets

\* ------------------------------------------------------------ constants

CARD_TOTAL == 43848

\* The highest level at which Ruby has a tier of its own.
RubyTiers == 4

\* ------------------------------------------------------------ bounds

\* Bronze, Silver, Gold and Sapphire levels range over -1..MaxLevel.
MaxLevel == 2

\* An upgrade selection of the aggregator runs holds at most MaxEntries entries.
MaxEntries == 2

\* ------------------------------------------------------------ JS values

JsUndefined == [t |-> "undefined"]

JsNum(n) == [t |-> "number", n |-> n]

JsStr(s) == [t |-> "string", s |-> s]

JsBool(b) == [t |-> "boolean", b |-> b]

DigitChars == <<"0", "1", "2", "3", "4", "5", "6", "7", "8", "9">>

DigitValue(c) == (CHOOSE i \in 1..10 : DigitChars[i] = c) - 1

RECURSIVE ParseDigits(_)
\* The value of a string of decimal digits; the empty string converts to 0.
ParseDigits(s) ==
  IF s = <<>> THEN 0
  ELSE 10 * ParseDigits(SubSeq(s, 1, Len(s) - 1)) + DigitValue(s[Len(s)])

\* JavaScript truthiness: undefined, 0, "" and false are falsy.
Truthy(v) ==
  CASE v.t = "undefined" -> FALSE
    [] v.t = "number" -> v.n # 0
    [] v.t = "string" -> v.s # <<>>
    [] v.t = "boolean" -> v.b
    [] v.t = "object" -> TRUE

\* Number(v) for a number, a boolean or a string of digits.
ToNumber(v) ==
  CASE v.t = "number" -> v.n
    [] v.t = "string" -> ParseDigits(v.s)
    [] v.t = "boolean" -> IF v.b THEN 1 ELSE 0

\* Number(v || dflt)
NumberOrDefault(v, dflt) == IF Truthy(v) THEN ToNumber(v) ELSE dflt

\* ------------------------------------------------------------ fractions

RECURSIVE GCD(_, _)
GCD(a, b) == IF b = 0 THEN a ELSE GCD(b, a % b)

Abs(n) == IF n < 0 THEN -n ELSE n

Max(a, b) == IF a >= b THEN a ELSE b

\* The fraction n/d (d > 0) in lowest terms.
Frac(n, d) ==
  LET g == GCD(Abs(n), d)
  IN  [num |-> n \div g, den |-> d \div g]

FracMul(x, y) == Frac(x.num * y.num, x.den * y.den)

FracOfInt(n) == [num |-> n, den |-> 1]

Zero == FracOfInt(0)

One == FracOfInt(1)

\* Math.max(0, Math.min(1, x))
Clamp01(x) == IF x.num < 0 THEN Zero ELSE IF x.num > x.den THEN One ELSE x

\* ------------------------------------------------------------ records

defaultStats ==
  [rolls |-> 10, w_slots |-> 5, sw_slots |-> 1, w_boost |-> 0, sw_boost |-> 0,
   disabled_cards |-> 0, cards_left |-> CARD_TOTAL, cards_claimed |-> 0,
   kp_limit |-> 100, kp_usage |-> 100, kp_bonus |-> 0, og_server |-> FALSE,
   tuto_lvl |-> 0, persrare |-> 1]

\* cardsAvailable without the disabled cards.
cardsAvailableIgnoringDisabled(stats) == stats.cards_left

cardsAvailable(stats) == stats.cards_left - stats.disabled_cards

\* ------------------------------------------------------------ upgrades

Bronze(s, level) == [s EXCEPT !.w_slots = @ + level * 1]

\* Silver with a boost of 20 a level.
SilverTwenty(s, level) == [s EXCEPT !.w_boost = @ + level * 20]

Silver(s, level) == [s EXCEPT !.w_boost = @ + level * 25]

Gold(s, level) == [s EXCEPT !.kp_usage = @ - level * 10]

Sapphire(s, level) == [s EXCEPT !.rolls = @ + level * 1]

\* Ruby with a last tier that grows with the level.
RubyLinearRolls(s, level) ==
  LET s1 == IF level >= 1 THEN [s EXCEPT !.w_slots = @ + 2] ELSE s
      s2 == IF level >= 2 THEN [s1 EXCEPT !.w_boost = @ + 50] ELSE s1
      s3 == IF level >= 3 THEN [s2 EXCEPT !.kp_usage = @ - 20] ELSE s2
  IN  IF level >= 4 THEN [s3 EXCEPT !.rolls = @ + (level - 2)] ELSE s3

Ruby(s, level) ==
  LET s1 == IF level >= 1 THEN [s EXCEPT !.w_slots = @ + 2] ELSE s
      s2 == IF level >= 2 THEN [s1 EXCEPT !.w_boost = @ + 50] ELSE s1
      s3 == IF level >= 3 THEN [s2 EXCEPT !.kp_usage = @ - 20] ELSE s2
  IN  IF level >= 4 THEN [s3 EXCEPT !.rolls = @ + 2] ELSE s3

\* The own properties of the UPGRADE_EFFECTS object literal.
OwnNames == {"Bronze", "Silver", "Gold", "Sapphire", "Ruby"}

\* Properties UPGRADE_EFFECTS inherits from Object.prototype: an object
\* literal is an ordinary object, and UPGRADE_EFFECTS[name] reads them too.
InheritedNames == {"toString", "__defineSetter__"}

\* A name neither owned nor inherited: UPGRADE_EFFECTS[name] is undefined.
UnknownNames == {"Emerald"}

\* Whether UPGRADE_EFFECTS[name] is truthy.
HasEffect(name) == name \in OwnNames \cup InheritedNames

\* UPGRADE_EFFECTS[name](stats, nLevel) for a name with a truthy entry:
\* the record as the call leaves it, and whether the call threw.  The
\* inherited toString ignores its arguments; the inherited __defineSetter__
\* takes nLevel for the setter and throws a TypeError, a number not being
\* callable.
UPGRADE_EFFECTS(name, s, nLevel) ==
  CASE name = "Bronze" -> [stats |-> Bronze(s, nLevel), threw |-> FALSE]
    [] name = "Silver" -> [stats |-> Silver(s, nLevel), threw |-> FALSE]
    [] name = "Gold" -> [stats |-> Gold(s, nLevel), threw |-> FALSE]
    [] name = "Sapphire" -> [stats |-> Sapphire(s, nLevel), threw |-> FALSE]
    [] name = "Ruby" -> [stats |-> Ruby(s, nLevel), threw |-> FALSE]
    [] name = "toString" -> [stats |-> s, threw |-> FALSE]
    [] name = "__defineSetter__" -> [stats |-> s, threw |-> TRUE]

\* Number(level) || 0
NLevel(level) == IF level.t = "undefined" THEN 0 ELSE ToNumber(level)

\* The body of the forEach callback, for one entry [name, level].
ApplyEntry(s, e) ==
  LET nLevel == NLevel(e.level)
  IN  IF nLevel > 0 /\ HasEffect(e.name)
      THEN UPGRADE_EFFECTS(e.name, s, nLevel)
      ELSE [stats |-> s, threw |-> FALSE]

RECURSIVE ApplyEntries(_, _)
\* Object.entries(upgrades).forEach(...): the entries in insertion order; an
\* exception ends the loop, leaving what the earlier entries wrote.
ApplyEntries(s, entries) ==
  IF entries = <<>> THEN [stats |-> s, threw |-> FALSE]
  ELSE LET r == ApplyEntry(s, Head(entries))
       IN  IF r.threw THEN r ELSE ApplyEntries(r.stats, Tail(entries))

\* The server bonus granted whatever og_server says.
OgServerBonusAlways(s) == [s EXCEPT !.rolls = @ + 3]

OgServerBonus(s) == IF s.og_server THEN [s EXCEPT !.rolls = @ + 3] ELSE s

\* tutoCheck with two independent ifs: both tiers add up.
tutoCheckAdditive(stats) ==
  LET s1 == IF stats.tuto_lvl >= 16 THEN [stats EXCEPT !.sw_boost = @ + 100]
            ELSE stats
  IN  IF stats.tuto_lvl >= 10 THEN [s1 EXCEPT !.sw_boost = @ + 50] ELSE s1

tutoCheck(stats) ==
  IF stats.tuto_lvl >= 16 THEN [stats EXCEPT !.sw_boost = @ + 100]
  ELSE IF stats.tuto_lvl >= 10 THEN [stats EXCEPT !.sw_boost = @ + 50]
  ELSE stats

\* cards_claimed left as the caller supplied it.
KeepClaimed(s) == s

RecomputeClaimed(s) == [s EXCEPT !.cards_claimed = CARD_TOTAL - s.cards_left]

\* const stats = baseStats: an alias of the caller's object, no copy.
ObjectAlias(h, ref) == [heap |-> h, ref |-> ref]

\* { ...baseStats }: a new object holding the fields of the object at ref.
ObjectSpread(h, ref) == [heap |-> Append(h, h[ref]), ref |-> Len(h) + 1]

\* computeEffectiveStats(baseStats, upgrades) on the heap h, baseStats being
\* the object at ref: the heap after the call, the reference returned (0
\* when the call threw) and whether it threw.
computeEffectiveStats(h, ref, upgrades) ==
  LET sp == ObjectSpread(h, ref)
      r == ApplyEntries(sp.heap[sp.ref], upgrades)
      final == RecomputeClaimed(tutoCheck(OgServerBonus(r.stats)))
  IN  IF r.threw
      THEN [heap |-> [sp.heap EXCEPT ![sp.ref] = r.stats], ref |-> 0,
            threw |-> TRUE]
      ELSE [heap |-> [sp.heap EXCEPT ![sp.ref] = final], ref |-> sp.ref,
            threw |-> FALSE]

\* ------------------------------------------------------------ odds

ZeroOdds ==
  [specific_roll_odds |-> Zero, specific_wish_odds |-> Zero,
   wish_odds |-> Zero, star_wish_odds |-> Zero, kspawn_odds |-> Zero]

calculateOdds(stats) ==
  LET available == cardsAvailable(stats)
  IN  IF available <= 0 THEN ZeroOdds
      ELSE
        LET base == Frac(1, available)
            wishMult == Frac(100 + stats.w_boost, 100)
            starMult == Frac(100 + stats.w_boost + stats.sw_boost, 100)
            normalSlots == Max(0, stats.w_slots - stats.sw_slots)
            kRaw == Frac(stats.cards_claimed * 50,
                         Max(1, stats.persrare) * available)
        IN  [specific_roll_odds |-> base,
             specific_wish_odds |-> FracMul(base, wishMult),
             wish_odds |-> FracMul(FracMul(FracOfInt(normalSlots), base), wishMult),
             star_wish_odds |->
               FracMul(FracMul(FracOfInt(stats.sw_slots), base), starMult),
             kspawn_odds |-> Clamp01(kRaw)]

\* ------------------------------------------------------------ form helper

\* Object.assign(base, inputs) followed by the five coercions: the base
\* record calculateFromInputs hands to computeEffectiveStats.
FormBase(inputs) ==
  [defaultStats EXCEPT
     !.w_boost = IF inputs.w_boost.t = "undefined" THEN @ ELSE inputs.w_boost.n,
     !.disabled_cards = NumberOrDefault(inputs.disabled_cards, 0),
     !.cards_left = NumberOrDefault(inputs.cards_left, CARD_TOTAL),
     !.tuto_lvl = NumberOrDefault(inputs.tuto_lvl, 0),
     !.persrare = NumberOrDefault(inputs.persrare, 1),
     !.og_server = Truthy(inputs.og_server)]

\* inputs.upgrades || {}
FormUpgrades(inputs) ==
  IF Truthy(inputs.upgrades) THEN inputs.upgrades.entries ELSE <<>>

\* ------------------------------------------------------------ state

VARIABLES
  call,      \* which exported function the caller invokes
  heap,      \* the objects allocated so far
  baseRef,   \* the caller's base record (0: none yet)
  upgrades,  \* the caller's upgrade selection, entries in insertion order
  inputs,    \* the argument of calculateFromInputs
  pc,        \* "start", "aggregated", "done" or "threw"
  statsRef,  \* the record computeEffectiveStats returned (0: none)
  odds       \* the odds result (NoOdds: none)

vars == <<call, heap, baseRef, upgrades, inputs, pc, statsRef, odds>>

NoOdds == [none |-> TRUE]

Entry(name, n) == [name |-> name, level |-> JsNum(n)]

LinearLevels == -1..MaxLevel

RubyLevels == (-1..(RubyTiers + 1)) \cup {400}

AllEntries ==
  {Entry(name, n) : name \in OwnNames \ {"Ruby"}, n \in LinearLevels}
    \cup {Entry("Ruby", n) : n \in RubyLevels}
    \cup {Entry(name, 1) : name \in InheritedNames \cup UnknownNames}

NamesOf(sel) == {sel[i].name : i \in 1..Len(sel)}

RECURSIVE Selections(_)
\* The upgrade selections of at most n entries, no name twice.
Selections(n) ==
  IF n = 0 THEN {<<>>}
  ELSE LET prev == Selections(n - 1)
       IN  prev \cup UNION {{Append(sel, e) :
                               e \in {x \in AllEntries : x.name \notin NamesOf(sel)}} :
                            sel \in prev}

UpgradeSelections == Selections(MaxEntries)

\* The base records of the runs that vary the upgrade selection.
SelectionBases ==
  {[defaultStats EXCEPT !.og_server = og, !.tuto_lvl = tl] :
     og \in BOOLEAN, tl \in {0, 16}}

\* The base records of the runs that vary the statistics.
StatsRecords ==
  {[defaultStats EXCEPT !.w_slots = ws, !.sw_slots = sws, !.w_boost = wb,
                        !.sw_boost = swb, !.disabled_cards = dc,
                        !.cards_left = cl, !.cards_claimed = cc,
                        !.og_server = og, !.tuto_lvl = tl, !.persrare = pr] :
     ws \in {0, 5}, sws \in {0, 1, 8}, wb \in {-200, 0, 25}, swb \in {0, 10},
     dc \in {0, 2}, cl \in {0, 1, 43000, CARD_TOTAL}, cc \in {0, 7},
     og \in BOOLEAN, tl \in {0, 9, 10, 15, 16, 100}, pr \in {1, 2}}

ExampleSelection == <<Entry("Bronze", 2), Entry("Silver", 1)>>

\* The arguments of calculateFromInputs: field values as a form supplies
\* them, numbers, strings of digits, booleans, or absent.
FormInputs ==
  {[cards_left |-> cl, disabled_cards |-> dc, tuto_lvl |-> tl,
    persrare |-> pr, og_server |-> og, w_boost |-> wb, upgrades |-> up] :
     cl \in {JsUndefined, JsNum(0), JsNum(1), JsNum(-3), JsNum(CARD_TOTAL),
             JsStr(<<>>), JsStr(<<"0">>), JsStr(<<"1", "2">>)},
     dc \in {JsUndefined, JsNum(0), JsNum(1), JsStr(<<"5">>)},
     tl \in {JsUndefined, JsNum(16)},
     pr \in {JsUndefined, JsNum(0), JsNum(2)},
     og \in {JsUndefined, JsBool(TRUE), JsBool(FALSE)},
     wb \in {JsUndefined, JsNum(25)},
     up \in {JsUndefined,
             [t |-> "object",
              entries |-> <<[name |-> "Bronze", level |-> JsStr(<<"2">>)]>>]}}

InitCore ==
  /\ call = "core"
  /\ \/ \E b \in SelectionBases, u \in UpgradeSelections :
          heap = <<b>> /\ upgrades = u
     \/ \E b \in StatsRecords, u \in {<<>>, ExampleSelection} :
          heap = <<b>> /\ upgrades = u
  /\ baseRef = 1
  /\ inputs = JsUndefined

InitOdds ==
  /\ call = "odds"
  /\ \E b \in StatsRecords : heap = <<b>>
  /\ upgrades = <<>>
  /\ baseRef = 1
  /\ inputs = JsUndefined

InitForm ==
  /\ call = "form"
  /\ heap = <<>>
  /\ upgrades = <<>>
  /\ baseRef = 0
  /\ inputs \in FormInputs

Init ==
  /\ (InitCore \/ InitOdds \/ InitForm)
  /\ pc = "start"
  /\ statsRef = 0
  /\ odds = NoOdds

\* The caller runs computeEffectiveStats(base, upgrades).
ComputeEffectiveStats ==
  /\ call = "core"
  /\ pc = "start"
  /\ LET r == computeEffectiveStats(heap, baseRef, upgrades)
     IN  /\ heap' = r.heap
         /\ statsRef' = r.ref
         /\ pc' = IF r.threw THEN "threw" ELSE "aggregated"
  /\ UNCHANGED <<call, baseRef, upgrades, inputs, odds>>

\* The caller runs calculateOdds, on the record computeEffectiveStats
\* returned or on its own record.
CalculateOdds ==
  /\ pc = IF call = "odds" THEN "start" ELSE "aggregated"
  /\ call # "form"
  /\ odds' = calculateOdds(heap[IF call = "odds" THEN baseRef ELSE statsRef])
  /\ pc' = "done"
  /\ UNCHANGED <<call, heap, baseRef, upgrades, inputs, statsRef>>

\* The caller runs calculateFromInputs(inputs).
CalculateFromInputs ==
  /\ call = "form"
  /\ pc = "start"
  /\ LET h == Append(heap, FormBase(inputs))
         r == computeEffectiveStats(h, Len(h), FormUpgrades(inputs))
     IN  /\ baseRef' = Len(h)
         /\ heap' = r.heap
         /\ statsRef' = r.ref
         /\ pc' = IF r.threw THEN "threw" ELSE "done"
         /\ odds' = IF r.threw THEN NoOdds ELSE calculateOdds(r.heap[r.ref])
  /\ UNCHANGED <<call, upgrades, inputs>>

Next == ComputeEffectiveStats \/ CalculateOdds \/ CalculateFromInputs

Spec == Init /\ [][Next]_vars

\* ------------------------------------------------------------ claims

\* The caller's base record.
Base == heap[baseRef]

\* The record computeEffectiveStats returned.
Stats == heap[statsRef]

\* The record calculateOdds was given.
Arg == heap[IF call = "odds" THEN baseRef ELSE statsRef]

InUnit(x) == x.num >= 0 /\ x.num <= x.den

NonNegative(x) == x.num >= 0

TutoBonus(tl) == IF tl >= 16 THEN 100 ELSE IF tl >= 10 THEN 50 ELSE 0

\* The level the selection gives a name, 0 when it has no entry for it.
LevelOf(sel, name) ==
  IF name \in NamesOf(sel)
  THEN NLevel(sel[CHOOSE i \in 1..Len(sel) : sel[i].name = name].level)
  ELSE 0

\* C1: for every record with w_slots, sw_slots, disabled_cards, cards_left
\* >= 0, persrare >= 1 and cards_left - disabled_cards > 0, calculateOdds
\* returns specific_roll_odds, specific_wish_odds and kspawn_odds within
\* [0,1] and wish_odds and star_wish_odds >= 0.
C1_OddsInRange ==
  (/\ pc = "done"
   /\ Arg.w_slots >= 0 /\ Arg.sw_slots >= 0 /\ Arg.disabled_cards >= 0
   /\ Arg.cards_left >= 0 /\ Arg.persrare >= 1
   /\ Arg.cards_left - Arg.disabled_cards > 0)
  => /\ InUnit(odds.specific_roll_odds)
     /\ InUnit(odds.specific_wish_odds)
     /\ InUnit(odds.kspawn_odds)
     /\ NonNegative(odds.wish_odds)
     /\ NonNegative(odds.star_wish_odds)

\* C2, as stated: with an empty upgrade selection every field of the
\* returned record other than cards_claimed equals the field of base.
C2_EmptySelectionOnlyClaimed ==
  (pc = "aggregated" /\ upgrades = <<>>)
  => [Stats EXCEPT !.cards_claimed = Base.cards_claimed] = Base

\* C2, amended: with an empty upgrade selection every field of the returned
\* record other than cards_claimed, rolls and sw_boost equals the field of
\* base; rolls is base.rolls + 3 when og_server is set and base.rolls
\* otherwise, and sw_boost is base.sw_boost plus the tutorial bonus.
C2_EmptySelectionFrame ==
  (pc = "aggregated" /\ upgrades = <<>>)
  => /\ [Stats EXCEPT !.cards_claimed = Base.cards_claimed,
                      !.rolls = Base.rolls,
                      !.sw_boost = Base.sw_boost] = Base
     /\ Stats.rolls = Base.rolls + (IF Base.og_server THEN 3 ELSE 0)
     /\ Stats.sw_boost = Base.sw_boost + TutoBonus(Base.tuto_lvl)

C2_Witness ==
  /\ pc = "aggregated" /\ upgrades = <<>>
  /\ Base.og_server /\ Base.tuto_lvl = 10
  /\ Stats.rolls = Base.rolls + 3
  /\ Stats.sw_boost = Base.sw_boost + 50
  /\ Stats.w_slots = Base.w_slots

\* C3: a call of computeEffectiveStats leaves every field of the caller's
\* base record as it was, and the record it returns is another object.
C3_BaseNotMutated ==
  [][(call = "core" /\ pc = "start")
       => /\ heap'[baseRef] = heap[baseRef]
          /\ baseRef' = baseRef
          /\ statsRef' # baseRef]_vars

C3_Witness ==
  /\ pc = "aggregated" /\ call = "core"
  /\ upgrades # <<>>
  /\ Stats.w_slots # Base.w_slots
  /\ Stats.rolls # Base.rolls

\* C4: for every record with cards_left - disabled_cards <= 0 calculateOdds
\* returns 0 for all five outputs, kspawn_odds included whatever
\* cards_claimed is.
C4_DegenerateAllZero ==
  (pc = "done" /\ Arg.cards_left - Arg.disabled_cards <= 0)
  => odds = ZeroOdds

C4_Witness ==
  /\ pc = "done"
  /\ Arg.cards_left = 0 /\ Arg.disabled_cards = 0
  /\ Arg.persrare = 1 /\ Arg.cards_claimed = CARD_TOTAL
  /\ odds.kspawn_odds = Zero

\* The selection with the level of its Ruby entry replaced by n.
WithRuby(sel, n) ==
  [i \in 1..Len(sel) |->
     IF sel[i].name = "Ruby" THEN Entry("Ruby", n) ELSE sel[i]]

\* C5: with Ruby at any level n >= 4, and whatever the other entries,
\* computeEffectiveStats ends as it does with Ruby at level 4 and returns
\* the same record.
C5_RubyCapped ==
  (/\ call = "core" /\ pc \in {"aggregated", "threw"}
   /\ LevelOf(upgrades, "Ruby") >= 4)
  => LET alt == computeEffectiveStats(<<Base>>, 1, WithRuby(upgrades, 4))
     IN  /\ (pc = "threw") = alt.threw
         /\ pc = "aggregated" => Stats = alt.heap[alt.ref]

C5_Witness ==
  /\ pc = "aggregated"
  /\ LevelOf(upgrades, "Ruby") = 400
  /\ LevelOf(upgrades, "Sapphire") = 1
  /\ Stats.rolls = Base.rolls + 3
  /\ Stats.w_slots = Base.w_slots + 2
  /\ Stats.w_boost = Base.w_boost + 50
  /\ Stats.kp_usage = Base.kp_usage - 20

\* Every entry of the selection has a level >= 0, as the data model has it.
LevelsNonNegative(sel) == \A i \in 1..Len(sel) : NLevel(sel[i].level) >= 0

C7_TutoTiers ==
  pc = "aggregated"
  => Stats.sw_boost =
       Base.sw_boost + (IF Base.tuto_lvl >= 16 THEN 100
                        ELSE IF Base.tuto_lvl >= 10 THEN 50 ELSE 0)

C7_Witness ==
  /\ pc = "aggregated"
  /\ Base.tuto_lvl = 100 /\ Base.sw_boost = 10
  /\ Stats.sw_boost = 110

\* C8: the record computeEffectiveStats returns has cards_claimed =
\* 43848 - cards_left, with cards_left that of base, whatever cards_claimed
\* base carries.
C8_ClaimedDerived ==
  pc = "aggregated"
  => /\ Stats.cards_claimed = 43848 - Stats.cards_left
     /\ Stats.cards_left = Base.cards_left

C8_Witness ==
  /\ pc = "aggregated"
  /\ Base.cards_claimed = 7 /\ Base.cards_left = 43000
  /\ Stats.cards_claimed = 848

\* The selection without its entries of level <= 0 and its entries whose
\* name is not one of Bronze, Silver, Gold, Sapphire, Ruby.
Effective(sel) ==
  SelectSeq(sel, LAMBDA e : NLevel(e.level) > 0 /\ e.name \in OwnNames)

\* C9: entries of level <= 0 and entries whose name is not one of Bronze,
\* Silver, Gold, Sapphire, Ruby have no effect: computeEffectiveStats
\* returns with them what it returns without them.
C9_IgnoredEntries ==
  (call = "core" /\ pc \in {"aggregated", "threw"})
  => /\ pc = "aggregated"
     /\ Stats = LET alt == computeEffectiveStats(<<Base>>, 1, Effective(upgrades))
                IN  alt.heap[alt.ref]

\* C10: through calculateFromInputs, an input whose supplied cards_left
\* minus supplied disabled_cards is <= 0 yields all five odds 0.
C10_FormDegenerate ==
  (/\ call = "form" /\ pc = "done"
   /\ inputs.cards_left.t # "undefined"
   /\ inputs.disabled_cards.t # "undefined"
   /\ ToNumber(inputs.cards_left) - ToNumber(inputs.disabled_cards) <= 0)
  => odds = ZeroOdds

\* ------------------------------------------------------------ what the code does keep

\* specific_roll_odds and kspawn_odds are within [0,1] for every record.
ClampedOutputsInUnit ==
  pc = "done"
  => InUnit(odds.specific_roll_odds) /\ InUnit(odds.kspawn_odds)

\* With boosts of at least -100 no output is negative.
NonNegativeBoostsNonNegativeOdds ==
  (/\ pc = "done"
   /\ Arg.sw_slots >= 0
   /\ Arg.w_boost >= -100 /\ Arg.w_boost + Arg.sw_boost >= -100)
  => /\ NonNegative(odds.specific_wish_odds)
     /\ NonNegative(odds.wish_odds)
     /\ NonNegative(odds.star_wish_odds)

\* Whenever computeEffectiveStats returns, the entries of level <= 0 and of
\* other names have had no effect.
ReturnedIgnoresEntries ==
  (call = "core" /\ pc = "aggregated")
  => Stats = LET alt == computeEffectiveStats(<<Base>>, 1, Effective(upgrades))
             IN  alt.heap[alt.ref]

\* computeEffectiveStats throws only on a positive level under the name of
\* an inherited method that rejects its arguments.
ThrowsOnlyOnInherited ==
  pc = "threw"
  => \E i \in 1..Len(upgrades) :
       upgrades[i].name = "__defineSetter__" /\ NLevel(upgrades[i].level) > 0

\* Through calculateFromInputs a truthy cards_left is kept, and an empty
\* pool then gives all zeros.
FormTruthyDegenerate ==
  (/\ call = "form" /\ pc = "done"
   /\ Truthy(inputs.cards_left)
   /\ inputs.disabled_cards.t # "undefined"
   /\ ToNumber(inputs.cards_left) - ToNumber(inputs.disabled_cards) <= 0)
  => odds = ZeroOdds

====
